---- MODULE Spec2Model ----
(***************************************************************************)
(* Model of tesseract_node3.py: the Spacetime4D position, the HyperMemory  *)
(* dictionary, the QuantumCore circuits as far as the shape of their       *)
(* measurement strings goes, the Flask routes and the background drift     *)
(* thread.                                                                 *)
(*                                                                         *)
(* Numbers are the integer-valued floats: Python adds them exactly below   *)
(* 2^53, so + and * on Int are the code's + and * on the modelled values.  *)
(* Strings that the code inspects character by character (query values,    *)
(* measurement strings) are sequences of one-character strings.            *)
(* spacetime.move is not atomic: every attribute load and store is a step  *)
(* of its own, and the drift thread runs between the steps of a handler.   *)
(***************************************************************************)
EXTENDS Integers, Sequences, FiniteSets, TLC

VARIABLES
    pos,      \* spacetime: the fields <<t, x, y, z>>
    memory,   \* memory.data
    i,        \* the seeding loop's index
    serving,  \* the drift thread is started and app.run is listening
    handler,  \* the request being handled and its call of spacetime.move
    resp,     \* the last response sent
    drifter,  \* the drift thread
    ticks,    \* wake-ups of the drift loop so far
    served,   \* requests accepted so far
    seeded,   \* history: the values np.random.randint returned, in order
    applied,  \* history: the sum of the deltas of all calls of move so far
    hist,     \* history of the request in progress
    trace     \* history of the last /move request that returned

vars == <<pos, memory, i, serving, handler, resp, drifter, ticks, served,
          seeded, applied, hist, trace>>

----------------------------------------------------------------------------
(* Bounds *)

\* number of requests the clients send
MaxReq == 1
\* number of wake-ups of the drift loop
MaxDrift == 1

----------------------------------------------------------------------------
(* Spacetime4D *)

c == 299792458

Zero4 == <<0, 0, 0, 0>>

\* a position is <<t, x, y, z>>
Add4(p, d) == [k \in 1..4 |-> p[k] + d[k]]

\* the fields after an uninterrupted move(dt, dx, dy, dz)
Move(p, d) == Add4(p, d)

\* the tuple an uninterrupted move returns for the fields p
PosTuple(p) == <<c * p[1], p[2], p[3], p[4]>>

\* A call of move in progress: pc 0..7 are the load and the store of
\* self.t += dt, self.x += dx, self.y += dy, self.z += dz; pc 8..11 load
\* the four fields of the returned tuple; pc 12 is the return.
NewFrame(d) == [pc |-> 0, d |-> d, tmp |-> 0, ret |-> <<>>]

NoFrame == [pc |-> 12, d |-> Zero4, tmp |-> 0, ret |-> <<>>]

FieldOf(pc) == IF pc < 8 THEN (pc \div 2) + 1 ELSE pc - 7

IsStore(f) == f.pc < 8 /\ f.pc % 2 = 1

\* = in place of +=
StoreValueAssign(f) == f.d[FieldOf(f.pc)]

\* the value STORE_ATTR writes: the loaded value plus the delta
StoreValue(f) == f.tmp + f.d[FieldOf(f.pc)]

\* self.t in place of self.c * self.t
TupleItemRaw(k, p) == p[k]

\* one element of the returned tuple
TupleItem(k, p) == IF k = 1 THEN c * p[1] ELSE p[k]

PosAfterStep(f, p) ==
    IF IsStore(f) THEN [p EXCEPT ![FieldOf(f.pc)] = StoreValue(f)] ELSE p

FrameAfterStep(f, p) ==
    IF f.pc < 8
    THEN IF f.pc % 2 = 0
         THEN [f EXCEPT !.pc = f.pc + 1, !.tmp = p[FieldOf(f.pc)]]
         ELSE [f EXCEPT !.pc = f.pc + 1, !.tmp = 0]
    ELSE [f EXCEPT !.pc = f.pc + 1,
                   !.ret = Append(f.ret, TupleItem(FieldOf(f.pc), p))]

----------------------------------------------------------------------------
(* QuantumCore: the classical registers of the circuits and get_counts keys *)

Bit == {"0", "1"}

BitStrings(n) == [1..n -> Bit]

Zeros(n) == [k \in 1..n |-> "0"]

\* QuantumCircuit(n, m): n qubits, one classical register of m bits
QuantumCircuit(n, m) == [qubits |-> n, cregs |-> <<m>>, target |-> 1]

\* qc.measure(qubits, clbits) writes into the existing register
Measure(qc) == [qc EXCEPT !.target = 1]

\* qc.measure_all() adds a register of one bit per qubit and measures into it
MeasureAll(qc) ==
    [qc EXCEPT !.cregs = Append(qc.cregs, qc.qubits),
               !.target = Len(qc.cregs) + 1]

RegisterValue(qc, r, bits) ==
    IF r = qc.target THEN bits ELSE Zeros(qc.cregs[r])

RECURSIVE KeyFrom(_, _, _)
\* the registers r, r-1, .., 1 separated by one space
KeyFrom(qc, r, bits) ==
    IF r = 1 THEN RegisterValue(qc, 1, bits)
    ELSE RegisterValue(qc, r, bits) \o <<" ">> \o KeyFrom(qc, r - 1, bits)

\* the key of get_counts() for a single shot: last register first
CountsKey(qc, bits) == KeyFrom(qc, Len(qc.cregs), bits)

\* the measured register's width
MeasuredBits(qc) == qc.cregs[qc.target]

\* measure_all() in place of measure([0,1], [0,1])
EntangledPairMeasureAll == MeasureAll(QuantumCircuit(2, 2))

EntangledPairCircuit == Measure(QuantumCircuit(2, 2))

GhzCircuit(n) == MeasureAll(QuantumCircuit(n, n))

\* qc.id() is called without its qubit argument unless target == '11'
OracleRaises(target) == target # <<"1", "1">>

GroverCircuit(n) == Measure(QuantumCircuit(n, n))

RECURSIVE BinToInt(_)
\* int(result, 2) for a string of binary digits
BinToInt(s) ==
    IF Len(s) = 0 THEN 0
    ELSE 2 * BinToInt(SubSeq(s, 1, Len(s) - 1))
         + (IF s[Len(s)] = "1" THEN 1 ELSE 0)

IsBinaryString(s) == \A k \in 1..Len(s) : s[k] \in Bit

----------------------------------------------------------------------------
(* HyperMemory *)

None == <<>>

Some(v) == <<v>>

Store(data, coord, value) ==
    [k \in DOMAIN data \cup {coord} |-> IF k = coord THEN value ELSE data[k]]

Retrieve(data, coord) ==
    IF coord \in DOMAIN data THEN Some(data[coord]) ELSE None

EmptyData == [k \in {} |-> 0]

\* the values np.random.randint(0, 100) returns: the two ends of its range
SeedValues == {0, 99}

\* move(0, 0, 0, 0) in place of move(0, i, 0, 0)
SeedDxZero(n) == 0

\* the dx of the seeding loop's i-th move
SeedDx(n) == n

\* the search result mapped to a coordinate
GroverCoordIndexed(index) == <<0, index, 0, 0>>

\* the coordinate /grover looks up
GroverCoord(index) == Zero4

----------------------------------------------------------------------------
(* request.args and float() *)

Digits == <<"0", "1", "2", "3", "4", "5", "6", "7", "8", "9">>

IsDigit(ch) == \E k \in 1..10 : Digits[k] = ch

DigitValue(ch) == (CHOOSE k \in 1..10 : Digits[k] = ch) - 1

RECURSIVE DecValue(_)
DecValue(s) ==
    IF Len(s) = 0 THEN 0
    ELSE 10 * DecValue(SubSeq(s, 1, Len(s) - 1)) + DigitValue(s[Len(s)])

AllDigits(s) == Len(s) > 0 /\ \A k \in 1..Len(s) : IsDigit(s[k])

Ok(v) == [ok |-> TRUE, v |-> v]

ValueError == [ok |-> FALSE, v |-> 0]

\* a parser that reads what is not a numeral as 0
ParseFloatLenient(s) == IF AllDigits(s) THEN Ok(DecValue(s)) ELSE Ok(0)

\* float(s) for the strings of QueryStrings: a signed decimal numeral, or
\* ValueError
ParseFloat(s) ==
    IF AllDigits(s) THEN Ok(DecValue(s))
    ELSE IF Len(s) > 1 /\ s[1] = "-" /\ AllDigits(Tail(s)) THEN Ok(0 - DecValue(Tail(s)))
    ELSE IF Len(s) > 1 /\ s[1] = "+" /\ AllDigits(Tail(s)) THEN Ok(DecValue(Tail(s)))
    ELSE ValueError

\* float(request.args.get(key, 0)): the default 0 is a number, not a string
FloatArg(args, key) ==
    IF key \in DOMAIN args THEN ParseFloat(args[key]) ELSE Ok(0)

\* the values clients put in dt and dx
QueryStrings == {<<"1">>, <<"-", "1">>, <<"1", "x">>}

\* query strings of /move: dt and dx each present, with a value of S, or absent
ArgsOver(S) == UNION {[D -> S] : D \in SUBSET {"dt", "dx"}}

MoveArgs == ArgsOver(QueryStrings)

\* the values the client of SpecPair puts in dt and dx
PairStrings == {<<"1">>, <<"1", "x">>}

PairArgs == ArgsOver(PairStrings)

\* the values clients put in target
TargetStrings == {<<"0", "0">>, <<"0", "1">>, <<"1", "0">>, <<"1", "1">>}

GroverArgs == UNION {[D -> TargetStrings] : D \in SUBSET {"target"}}

TargetArg(args) ==
    IF "target" \in DOMAIN args THEN args["target"] ELSE <<"1", "1">>

----------------------------------------------------------------------------
(* Responses *)

Json(route, body) == [route |-> route, status |-> 200, body |-> body]

Error(route, exc) == [route |-> route, status |-> 500, body |-> [error |-> exc]]

NoResp == [route |-> "none", status |-> 0, body |-> [error |-> "none"]]

Idle == [route |-> "idle", f |-> NoFrame]

Asleep == [state |-> "sleep", f |-> NoFrame]

NoHist == [start |-> Zero4, clean |-> TRUE, prev |-> <<>>]

----------------------------------------------------------------------------
(* Startup: lines 94-101 and 169 *)

Init ==
    /\ pos = Zero4
    /\ memory = EmptyData
    /\ i = 0
    /\ serving = FALSE
    /\ handler = Idle
    /\ resp = NoResp
    /\ drifter = Asleep
    /\ ticks = 0
    /\ served = 0
    /\ seeded = <<>>
    /\ applied = Zero4
    /\ hist = NoHist
    /\ trace = <<>>

\* one iteration of the seeding loop
Seed ==
    /\ ~serving
    /\ i < 4
    /\ \E value \in SeedValues :
         LET d == <<0, SeedDx(i), 0, 0>>
             p == Move(pos, d)
         IN /\ pos' = p
            /\ memory' = Store(memory, PosTuple(p), value)
            /\ applied' = Add4(applied, d)
            /\ seeded' = Append(seeded, value)
    /\ i' = i + 1
    /\ UNCHANGED <<serving, handler, resp, drifter, ticks, served, hist, trace>>

\* the drift thread is started and app.run accepts requests
StartServer ==
    /\ ~serving
    /\ i = 4
    /\ serving' = TRUE
    /\ UNCHANGED <<seeded, pos, memory, i, handler, resp, drifter, ticks, served,
                   applied, hist, trace>>

----------------------------------------------------------------------------
(* Routes *)

CanAccept == serving /\ handler.route = "idle"

\* a request that touches neither the position nor a move in progress
Answer(r) ==
    /\ resp' = r
    /\ served' = served + 1
    /\ hist' = NoHist
    /\ trace' = <<>>
    /\ UNCHANGED <<seeded, pos, memory, i, serving, handler, drifter, ticks, applied>>

\* a request whose handler calls spacetime.move(d)
Enter(route, d) ==
    /\ handler' = [route |-> route, f |-> NewFrame(d)]
    /\ resp' = NoResp
    /\ served' = served + 1
    /\ applied' = Add4(applied, d)
    /\ trace' = <<>>
    /\ UNCHANGED <<seeded, pos, memory, i, serving, drifter, ticks>>

Home ==
    /\ CanAccept
    /\ Answer(Json("home", [html |-> "TESSERACT-NODE v1.0"]))

Status ==
    /\ CanAccept
    /\ Enter("status", Zero4)
    /\ hist' = [NoHist EXCEPT !.start = pos]

Entangle ==
    /\ CanAccept
    /\ \E bits \in BitStrings(MeasuredBits(EntangledPairCircuit)) :
         Answer(Json("entangle",
                     [bell_pair |-> CountsKey(EntangledPairCircuit, bits),
                      entanglement |-> "ACHIEVED"]))

Ghz ==
    /\ CanAccept
    /\ \E bits \in BitStrings(MeasuredBits(GhzCircuit(4))) :
         Answer(Json("ghz",
                     [ghz_state |-> CountsKey(GhzCircuit(4), bits),
                      qubits |-> 4]))

MoveReq(args) ==
    /\ CanAccept
    /\ LET dt == FloatArg(args, "dt")
           dx == FloatArg(args, "dx")
       IN IF dt.ok /\ dx.ok
          THEN /\ Enter("move", <<dt.v, dx.v, 0, 0>>)
               /\ hist' = [start |-> pos, clean |-> TRUE, prev |-> hist.prev]
          ELSE Answer(Error("move", "ValueError"))

GroverReq(args) ==
    /\ CanAccept
    /\ IF OracleRaises(TargetArg(args))
       THEN Answer(Error("grover", "TypeError"))
       ELSE \E bits \in BitStrings(MeasuredBits(GroverCircuit(2))) :
              LET result == CountsKey(GroverCircuit(2), bits)
                  index == BinToInt(result)
                  found == Retrieve(memory, GroverCoord(index))
              IN Answer(Json("grover",
                             [found_item |-> found,
                              at_binary_index |-> result,
                              quantum_speedup |-> "ACHIEVED"]))

\* one attribute load or store of the handler's call of spacetime.move
HandlerStep ==
    /\ handler.route \in {"move", "status"}
    /\ handler.f.pc < 12
    /\ pos' = PosAfterStep(handler.f, pos)
    /\ handler' = [handler EXCEPT !.f = FrameAfterStep(handler.f, pos)]
    /\ UNCHANGED <<seeded, memory, i, serving, resp, drifter, ticks, served, applied,
                   hist, trace>>

\* jsonify of the tuple the call returned
HandlerReturn ==
    /\ handler.route \in {"move", "status"}
    /\ handler.f.pc = 12
    /\ handler' = Idle
    /\ IF handler.route = "move"
       THEN /\ resp' = Json("move", [new_position |-> handler.f.ret])
            /\ trace' = <<[start |-> hist.start, d |-> handler.f.d,
                           ret |-> handler.f.ret, after |-> pos,
                           clean |-> hist.clean, prev |-> hist.prev]>>
            /\ hist' = [NoHist EXCEPT
                          !.prev = <<[start |-> hist.start, d |-> handler.f.d,
                                      clean |-> hist.clean]>>]
       ELSE /\ resp' = Json("status", [position |-> handler.f.ret,
                                       qubits |-> 16, offline |-> TRUE])
            /\ trace' = <<>>
            /\ hist' = NoHist
    /\ UNCHANGED <<seeded, pos, memory, i, serving, drifter, ticks, served, applied>>

----------------------------------------------------------------------------
(* drift: lines 163-169 *)

\* the values np.random.randn() returns
RandnValues == {-1}

\* a drift store between a request's start and its return
Dirty(h) ==
    [h EXCEPT !.clean = FALSE,
              !.prev = IF h.prev = <<>> THEN <<>>
                       ELSE <<[h.prev[1] EXCEPT !.clean = FALSE]>>]

\* drift uses neither tuple its calls return but to print the second one
Discard(f) == [f EXCEPT !.ret = <<>>]

\* time.sleep(10) returns; the three randn() arguments are drawn
DriftWake ==
    /\ serving
    /\ drifter.state = "sleep"
    /\ ticks < MaxDrift
    /\ \E rx \in RandnValues, ry \in RandnValues, rz \in RandnValues :
         /\ drifter' = [state |-> "move", f |-> NewFrame(<<1, rx, ry, rz>>)]
         /\ applied' = Add4(applied, <<1, rx, ry, rz>>)
    /\ ticks' = ticks + 1
    /\ UNCHANGED <<seeded, pos, memory, i, serving, handler, resp, served, hist, trace>>

\* one attribute load or store of either call of spacetime.move
DriftStep ==
    /\ drifter.state \in {"move", "print"}
    /\ drifter.f.pc < 12
    /\ pos' = PosAfterStep(drifter.f, pos)
    /\ drifter' = [drifter EXCEPT !.f = Discard(FrameAfterStep(drifter.f, pos))]
    /\ hist' = IF IsStore(drifter.f) THEN Dirty(hist) ELSE hist
    /\ UNCHANGED <<seeded, memory, i, serving, handler, resp, ticks, served, applied,
                   trace>>

\* move(1, ...) returned: the call of move(0,0,0,0) inside the f-string
DriftSecond ==
    /\ drifter.state = "move"
    /\ drifter.f.pc = 12
    /\ drifter' = [state |-> "print", f |-> NewFrame(Zero4)]
    /\ UNCHANGED <<seeded, pos, memory, i, serving, handler, resp, ticks, served,
                   applied, hist, trace>>

\* print, and back to time.sleep
DriftPrint ==
    /\ drifter.state = "print"
    /\ drifter.f.pc = 12
    /\ drifter' = Asleep
    /\ UNCHANGED <<seeded, pos, memory, i, serving, handler, resp, ticks, served,
                   applied, hist, trace>>

----------------------------------------------------------------------------

\* the clients send at most MaxReq requests, of any route
Next ==
    \/ Seed
    \/ StartServer
    \/ (served < MaxReq /\ Home)
    \/ (served < MaxReq /\ Status)
    \/ (served < MaxReq /\ Entangle)
    \/ (served < MaxReq /\ Ghz)
    \/ \E args \in MoveArgs : (served < MaxReq /\ MoveReq(args))
    \/ \E args \in GroverArgs : (served < MaxReq /\ GroverReq(args))
    \/ HandlerStep
    \/ HandlerReturn
    \/ DriftWake
    \/ DriftStep
    \/ DriftSecond
    \/ DriftPrint

Spec == Init /\ [][Next]_vars

\* a client sends one /move request and then a second one
NextPair ==
    \/ \E args \in PairArgs : (served \in {0, 1} /\ MoveReq(args))
    \/ HandlerStep
    \/ HandlerReturn
    \/ DriftWake
    \/ DriftStep
    \/ DriftSecond
    \/ DriftPrint

\* the state startup leaves, the four draws of randint being equal
InitPair ==
    /\ pos = <<0, 6, 0, 0>>
    /\ \E value \in SeedValues :
         /\ seeded = <<value, value, value, value>>
         /\ memory = [k \in {PosTuple(<<0, x, 0, 0>>) : x \in {0, 1, 3, 6}} |-> value]
    /\ i = 4
    /\ serving = TRUE
    /\ handler = Idle
    /\ resp = NoResp
    /\ drifter = Asleep
    /\ ticks = 0
    /\ served = 0
    /\ applied = <<0, 6, 0, 0>>
    /\ hist = NoHist
    /\ trace = <<>>

SpecPair == InitPair /\ [][NextPair]_vars

----------------------------------------------------------------------------
(* Properties *)

Quiet == handler.route = "idle" /\ drifter.state = "sleep"

\* two /move requests in a row have returned
PairDone == trace # <<>> /\ trace[1].prev # <<>>

\* what one /move with the summed deltas leaves, from where the first started
PairSum == Move(trace[1].prev[1].start, Add4(trace[1].prev[1].d, trace[1].d))

\* C1 as claimed: in every execution, drift included, the second of two
\* /move requests in a row returns the tuple, and leaves the fields, that a
\* single /move with the summed deltas gives from the first one's start.
C1_Additive ==
    PairDone => /\ trace[1].ret = PosTuple(PairSum)
                /\ trace[1].after = PairSum

\* C1 amended: the same, for two /move requests in a row between whose start
\* and return the drift thread stores no position field.
C1_AdditiveNoDrift ==
    (PairDone /\ trace[1].prev[1].clean) =>
        /\ trace[1].ret = PosTuple(PairSum)
        /\ trace[1].after = PairSum

C1_Witness ==
    /\ PairDone
    /\ trace[1].prev[1].clean
    /\ trace[1].prev[1].d = <<1, 1, 0, 0>>
    /\ trace[1].d = <<1, 0, 0, 0>>
    /\ trace[1].after = <<2, 7, 0, 0>>

\* C2 as claimed: every /grover request is answered with status 200 and a
\* body of found_item, at_binary_index and quantum_speedup.
C2_GroverAlwaysOk ==
    resp.route = "grover" =>
        /\ resp.status = 200
        /\ DOMAIN resp.body = {"found_item", "at_binary_index", "quantum_speedup"}

\* C3 as claimed: ghz_state is a string of four binary digits.
C3_GhzFourBits ==
    resp.route = "ghz" =>
        /\ Len(resp.body.ghz_state) = 4
        /\ IsBinaryString(resp.body.ghz_state)

\* C4: bell_pair is a string of two binary digits, whatever was measured.
C4_BellPairTwoBits ==
    resp.route = "entangle" =>
        /\ resp.status = 200
        /\ Len(resp.body.bell_pair) = 2
        /\ IsBinaryString(resp.body.bell_pair)

C4_Witness ==
    /\ resp.route = "entangle"
    /\ resp.body.bell_pair = <<"1", "1">>

\* C5: found_item of a /grover response is the value stored at (0,0,0,0),
\* which is the first value seeded at startup and never null, whatever the
\* target, the search result and the position.
C5_FoundItemIsFirstSeed ==
    (resp.route = "grover" /\ resp.status = 200) =>
        /\ resp.body.found_item = Retrieve(memory, Zero4)
        /\ resp.body.found_item = Some(seeded[1])
        /\ resp.body.found_item # None

C5_Witness ==
    /\ resp.route = "grover"
    /\ resp.status = 200
    /\ resp.body.at_binary_index = <<"0", "1">>
    /\ resp.body.found_item = Some(99)
    /\ seeded[2] = 0
    /\ pos # <<0, 6, 0, 0>>

\* C6 as claimed, for a request during which drift stores nothing: the tuple
\* /move returns is the stored fields (time, x, y, z) after the request,
\* which are the fields before it plus (dt, dx, 0, 0).
C6_ReturnsStoredFields ==
    (trace # <<>> /\ trace[1].clean) =>
        /\ trace[1].ret = trace[1].after
        /\ trace[1].after = Add4(trace[1].start, trace[1].d)

\* C6 amended: the tuple /move returns is (c * time, x, y, z) of the stored
\* fields after the request, which are the fields before it plus
\* (dt, dx, 0, 0), for a request during which drift stores nothing.
C6_ReturnsScaledTime ==
    (trace # <<>> /\ trace[1].clean) =>
        /\ trace[1].ret = <<c * trace[1].after[1], trace[1].after[2],
                            trace[1].after[3], trace[1].after[4]>>
        /\ trace[1].after = Add4(trace[1].start, trace[1].d)
        /\ trace[1].d[3] = 0
        /\ trace[1].d[4] = 0

C6_Witness ==
    /\ trace # <<>>
    /\ trace[1].clean
    /\ trace[1].d = <<-1, 1, 0, 0>>
    /\ trace[1].ret = <<0 - c, 7, 0, 0>>

\* C7 as claimed: when no request and no drift tick is in progress, every
\* position field is the sum of the deltas of all calls of move so far.
C7_SumOfDeltas == Quiet => pos = applied

\* the keys of the four seeded entries
SeedKeys == <<Zero4, <<0, 1, 0, 0>>, <<0, 3, 0, 0>>, <<0, 6, 0, 0>>>>

\* C8: once the server runs, the memory holds the four seeded entries under
\* four distinct keys, and nothing else, whatever routes and drift ticks ran.
C8_FourSeededEntries ==
    serving =>
        /\ Cardinality(DOMAIN memory) = 4
        /\ DOMAIN memory = {SeedKeys[n] : n \in 1..4}
        /\ \A n \in 1..4 : memory[SeedKeys[n]] = seeded[n]

C8_Witness ==
    /\ serving
    /\ resp.route = "move"
    /\ resp.status = 200
    /\ ticks = 1
    /\ Quiet
    /\ seeded = <<0, 99, 99, 0>>

\* the query values of the model that float() rejects
NotNumbers == {<<"1", "x">>}

HasNotNumber(args) == \E key \in DOMAIN args : args[key] \in NotNumbers

\* C9: a /move request with a dt or dx that is no number ends in the
\* parsing error and stores no position field, whatever the other parameter.
C9_BadNumberNoMove ==
    [][\A args \in MoveArgs :
         (HasNotNumber(args) /\ MoveReq(args)) =>
             /\ resp' = Error("move", "ValueError")
             /\ pos' = pos
             /\ handler' = Idle]_vars

C9_Witness ==
    /\ resp = Error("move", "ValueError")
    /\ ticks = 1
    /\ pos # <<0, 6, 0, 0>>

\* C10 as claimed: no step of a /status request changes the stored position.
C10_StatusReadsOnly ==
    [][(handler.route = "status" /\ HandlerStep) => pos' = pos]_vars

====
